---- MODULE Spec2Model ----
(***************************************************************************)
(* Model of script.py: the hourly TON sampler.  One run of the script      *)
(* fetches the TON price and the STON.fi volume in two pool threads,       *)
(* appends one CSV row to the local log and, on Cloud Run, mirrors the     *)
(* last local row into a GCS object.                                       *)
(*                                                                         *)
(* Text is a sequence of chunks: a chunk is either a line terminator or a  *)
(* newline-free string.  Datetimes are integer ticks, SubPerHour ticks to  *)
(* the hour.  JSON values are the strings of their literals, floats the    *)
(* strings of their repr, and Python's None is the string NoneVal.         *)
(***************************************************************************)
EXTENDS Integers, Sequences, FiniteSets, TLC

VARIABLES env, clock, localFile, remote, pc, exit_status,
          now, timestamp_hour, future_price, future_volume,
          ton_price, ton_price_ts, volume_float, volume_ts,
          io, fileAtStart

vars == <<env, clock, localFile, remote, pc, exit_status,
          now, timestamp_hour, future_price, future_volume,
          ton_price, ton_price_ts, volume_float, volume_ts,
          io, fileAtStart>>

----------------------------------------------------------------------------
(* Bounds of the model.                                                    *)

MaxRows == 2

MaxClock == 1

SubPerHour == 2

----------------------------------------------------------------------------
(* Values.                                                                 *)

NoneVal == "None"

Missing == "<missing>"

NL == "\n"

CRLF == "\r\n"

DefaultKey == "123"

HeaderRow ==
  << "hour", "timestamp", "ton_price", "ton_price_received_at",
     "volume_usd_float", "volume_usd_received_at" >>

----------------------------------------------------------------------------
(* Text: csv.writer output, str.splitlines, str.strip, str.rstrip.         *)

RECURSIVE JoinFields(_)
JoinFields(row) ==
  IF Len(row) = 0 THEN ""
  ELSE IF Len(row) = 1 THEN row[1]
  ELSE row[1] \o "," \o JoinFields(Tail(row))

\* str() of a field as csv.writer renders it: None becomes the empty field.
CsvField(v) == IF v = NoneVal THEN "" ELSE v

\* writer.writerow(row): the fields joined by commas, then "\r\n".
writerow(text, row) == text \o << JoinFields(row), CRLF >>

\* Reading in text mode (newline=None) translates "\r\n" to "\n".
ReadText(text) == [i \in 1..Len(text) |-> IF text[i] = CRLF THEN NL ELSE text[i]]

RECURSIVE SplitFrom(_, _, _, _)
SplitFrom(text, cur, pending, acc) ==
  IF text = << >> THEN (IF pending THEN Append(acc, cur) ELSE acc)
  ELSE IF Head(text) = NL THEN SplitFrom(Tail(text), "", FALSE, Append(acc, cur))
  ELSE SplitFrom(Tail(text), cur \o Head(text), TRUE, acc)

\* str.splitlines(): the lines without their terminators; no final empty line.
splitlines(text) == SplitFrom(text, "", FALSE, << >>)

\* text.strip() == "": nothing but line terminators.
IsBlankText(text) == \A i \in 1..Len(text) : text[i] = NL

RECURSIVE rstrip_nl(_)
rstrip_nl(text) ==
  IF text # << >> /\ text[Len(text)] = NL
    THEN rstrip_nl(SubSeq(text, 1, Len(text) - 1))
    ELSE text

\* [line for line in lines if line.strip()]
NonBlankLines(lines) == SelectSeq(lines, LAMBDA l : l # "")

InSeq(x, s) == \E i \in 1..Len(s) : s[i] = x

----------------------------------------------------------------------------
(* Datetimes.                                                              *)

isoformat(dt) == "d" \o ToString(dt \div SubPerHour) \o "h:" \o ToString(dt % SubPerHour)

truncate_to_hour(dt) == dt - (dt % SubPerHour)

----------------------------------------------------------------------------
(* Files.                                                                  *)

NoFile == [exists |-> FALSE, text |-> << >>]

\* Mutant of ensure_csv_exists: the header is written without the existence test.
ensure_csv_exists_Always(file) ==
  [exists |-> TRUE, text |-> writerow(<< >>, HeaderRow)]

ensure_csv_exists(file) ==
  IF ~file.exists
    THEN [exists |-> TRUE, text |-> writerow(<< >>, HeaderRow)]
    ELSE file

\* Mutant of AppendRow: the file is opened with "w" and loses what it held.
AppendRow_Truncating(file, row) == [exists |-> TRUE, text |-> writerow(<< >>, row)]

\* open("a") creates a missing file; the row goes after what is there.
AppendRow(file, row) == [exists |-> TRUE, text |-> writerow(file.text, row)]

FileLines(file) == NonBlankLines(splitlines(ReadText(file.text)))

----------------------------------------------------------------------------
(* Environment: os.getenv and the optional google-cloud-storage import.    *)

Unset == "<unset>"

Env(key, job, service, installed) ==
  [CMC_API_KEY |-> key, CLOUD_RUN_JOB |-> job, K_SERVICE |-> service,
   gcs_installed |-> installed]

\* The deployments the model runs: no key, an empty key and the placeholder key
\* (on Cloud Run, with the library); and a real key off Cloud Run, with an empty
\* K_SERVICE, as a Cloud Run job, as a Cloud Run service, and as a job whose
\* image lacks google-cloud-storage.
Envs ==
  { Env(Unset, "job", Unset, TRUE),
    Env("", Unset, "svc", TRUE),
    Env(DefaultKey, "job", "svc", TRUE),
    Env("k3y", Unset, Unset, TRUE),
    Env("k3y", Unset, "", TRUE),
    Env("k3y", "job", Unset, TRUE),
    Env("k3y", Unset, "svc", TRUE),
    Env("k3y", "job", Unset, FALSE) }

\* os.getenv(name): None when the variable is not set.
getenv(e, name) == IF e[name] = Unset THEN NoneVal ELSE e[name]

\* os.getenv("CMC_API_KEY", "123")
CMC_API_KEY(e) == IF e.CMC_API_KEY = Unset THEN DefaultKey ELSE e.CMC_API_KEY

\* Truth value of an optional string: None and "" are false.
Truthy(s) == s # NoneVal /\ s # ""

\* Mutant of KeyRejected: the placeholder key is let through.
KeyRejected_EmptyOnly(e) == ~Truthy(CMC_API_KEY(e))

\* not CMC_API_KEY or CMC_API_KEY == "123"
KeyRejected(e) == ~Truthy(CMC_API_KEY(e)) \/ CMC_API_KEY(e) = DefaultKey

\* Mutant of is_running_in_cloud_run: K_SERVICE is read with a non-empty default.
is_running_in_cloud_run_Defaulted(e) ==
  Truthy(getenv(e, "CLOUD_RUN_JOB"))
    \/ Truthy(IF e.K_SERVICE = Unset THEN "1" ELSE e.K_SERVICE)

is_running_in_cloud_run(e) ==
  Truthy(getenv(e, "CLOUD_RUN_JOB")) \/ Truthy(getenv(e, "K_SERVICE"))

----------------------------------------------------------------------------
(* HTTP responses and float().                                             *)

\* float(x) for the JSON values the model draws: a number, or a numeric string.
FloatTable ==
  ("5" :> "5.0") @@ ("\"5\"" :> "5.0") @@ ("12" :> "12.0") @@ ("\"12\"" :> "12.0")

CanFloat(x) == x \in DOMAIN FloatTable

Resp(net, status, json, code, val) ==
  [net |-> net, status |-> status, json |-> json, error_code |-> code, field |-> val]

NoResp == Resp(FALSE, 0, FALSE, Missing, Missing)

\* What the quote API may answer: the request raises, an HTTP error status, a body
\* that is not JSON, an API error code, no status envelope, a price that is no
\* number, and two successes (error_code 0 or "0").
PriceResponses ==
  { Resp(FALSE, 0, FALSE, Missing, Missing),
    Resp(TRUE, 500, TRUE, "0", "5"),
    Resp(TRUE, 200, FALSE, Missing, Missing),
    Resp(TRUE, 200, TRUE, "1001", Missing),
    Resp(TRUE, 200, TRUE, Missing, "5"),
    Resp(TRUE, 200, TRUE, "0", "null"),
    Resp(TRUE, 200, TRUE, "0", "5"),
    Resp(TRUE, 200, TRUE, "\"0\"", "\"5\"") }

\* What the analytics API may answer; it has no error-code envelope.
VolumeResponses ==
  { Resp(FALSE, 0, FALSE, Missing, Missing),
    Resp(TRUE, 404, TRUE, Missing, "12"),
    Resp(TRUE, 200, FALSE, Missing, Missing),
    Resp(TRUE, 200, TRUE, Missing, Missing),
    Resp(TRUE, 200, TRUE, Missing, "null"),
    Resp(TRUE, 200, TRUE, Missing, "12"),
    Resp(TRUE, 200, TRUE, Missing, "\"12\"") }

\* response.raise_for_status() raises for 4xx and 5xx.
HttpError(resp) == resp.status >= 400 /\ resp.status < 600

Result(value, ts, raised) == [value |-> value, ts |-> ts, raised |-> raised]

\* Mutant of fetch_ton_price: only the request's own errors are caught, so a body
\* that cannot be parsed raises out of the fetcher.
fetch_ton_price_NarrowExcept(resp, started_at, clk) ==
  IF ~resp.net \/ HttpError(resp)
    THEN Result(NoneVal, started_at, FALSE)
  ELSE IF ~resp.json \/ resp.error_code \notin {"0", "\"0\""} \/ ~CanFloat(resp.field)
    THEN Result(NoneVal, started_at, TRUE)
  ELSE Result(FloatTable[resp.field], clk, FALSE)

\* fetch_ton_price(started_at): clk is what datetime.now() returns on success.
\* Every exception of the try block is caught and becomes (None, started_at).
\* main() always passes started_at (its own now), so the default is never taken.
fetch_ton_price(resp, started_at, clk) ==
  IF ~resp.net \/ HttpError(resp) \/ ~resp.json
       \/ resp.error_code \notin {"0", "\"0\""}
       \/ ~CanFloat(resp.field)
    THEN Result(NoneVal, started_at, FALSE)
    ELSE Result(FloatTable[resp.field], clk, FALSE)

fetch_dex_volume_llama(resp, started_at, clk) ==
  IF ~resp.net \/ HttpError(resp) \/ ~resp.json \/ ~CanFloat(resp.field)
    THEN Result(NoneVal, started_at, FALSE)
    ELSE Result(FloatTable[resp.field], clk, FALSE)

----------------------------------------------------------------------------
(* The row main() writes.                                                  *)

Row(hour, ts, price, price_ts, volume, vol_ts) ==
  << isoformat(hour), isoformat(ts), CsvField(price), isoformat(price_ts),
     CsvField(volume), isoformat(vol_ts) >>

----------------------------------------------------------------------------
(* upload_last_row_to_gcs(local_csv, bucket_name).  read_fails: the        *)
(* download of an existing object raises.  The result is the object after  *)
(* the call and what the call did to it.                                   *)

NoRemote == [exists |-> FALSE, text |-> << >>]

Synced(rem, reads, writes, read_failed) ==
  [remote |-> rem, reads |-> reads, writes |-> writes, read_failed |-> read_failed]

FreshContent(header_line, last_line) ==
  [exists |-> TRUE, text |-> << header_line, NL, last_line, NL >>]

\* Mutant of upload_last_row_to_gcs: a download that raises ends the call.
upload_last_row_to_gcs_SkipOnReadError(local, rem, installed, read_fails) ==
  IF ~installed \/ ~local.exists \/ Len(FileLines(local)) < 2
    THEN Synced(rem, 0, 0, FALSE)
  ELSE
    LET lines == FileLines(local)
        last_line == lines[Len(lines)]
    IN
    IF ~rem.exists \/ read_fails THEN Synced(rem, 1, 0, TRUE)
    ELSE IF IsBlankText(rem.text) THEN Synced(FreshContent(lines[1], last_line), 1, 1, FALSE)
    ELSE IF InSeq(last_line, splitlines(rem.text)) THEN Synced(rem, 1, 0, FALSE)
    ELSE Synced([exists |-> TRUE,
                 text |-> rstrip_nl(rem.text) \o << NL, last_line, NL >>], 1, 1, FALSE)

\* Mutant of upload_last_row_to_gcs: the row is appended without the test for
\* a row that is already there.
upload_last_row_to_gcs_NoDuplicateTest(local, rem, installed, read_fails) ==
  IF ~installed \/ ~local.exists \/ Len(FileLines(local)) < 2
    THEN Synced(rem, 0, 0, FALSE)
  ELSE
    LET lines == FileLines(local)
        last_line == lines[Len(lines)]
    IN
    IF ~rem.exists \/ read_fails THEN Synced(FreshContent(lines[1], last_line), 1, 1, TRUE)
    ELSE IF IsBlankText(rem.text) THEN Synced(FreshContent(lines[1], last_line), 1, 1, FALSE)
    ELSE Synced([exists |-> TRUE,
                 text |-> rstrip_nl(rem.text) \o << NL, last_line, NL >>], 1, 1, FALSE)

\* Mutant of upload_last_row_to_gcs: an empty object is appended to like any
\* other, so the new content has no header.
upload_last_row_to_gcs_NoEmptyTest(local, rem, installed, read_fails) ==
  IF ~installed \/ ~local.exists \/ Len(FileLines(local)) < 2
    THEN Synced(rem, 0, 0, FALSE)
  ELSE
    LET lines == FileLines(local)
        last_line == lines[Len(lines)]
    IN
    IF ~rem.exists \/ read_fails THEN Synced(FreshContent(lines[1], last_line), 1, 1, TRUE)
    ELSE IF InSeq(last_line, splitlines(rem.text)) THEN Synced(rem, 1, 0, FALSE)
    ELSE Synced([exists |-> TRUE,
                 text |-> rstrip_nl(rem.text) \o << NL, last_line, NL >>], 1, 1, FALSE)

upload_last_row_to_gcs(local, rem, installed, read_fails) ==
  IF ~installed THEN Synced(rem, 0, 0, FALSE)
  ELSE IF ~local.exists THEN Synced(rem, 0, 0, FALSE)
  ELSE
    LET lines == FileLines(local) IN
    IF Len(lines) < 2 THEN Synced(rem, 0, 0, FALSE)
    ELSE
      LET header_line == lines[1]
          last_line == lines[Len(lines)]
      IN
      IF ~rem.exists \/ read_fails
        THEN Synced(FreshContent(header_line, last_line), 1, 1, TRUE)
      ELSE IF IsBlankText(rem.text)
        THEN Synced(FreshContent(header_line, last_line), 1, 1, FALSE)
      ELSE IF InSeq(last_line, splitlines(rem.text))
        THEN Synced(rem, 1, 0, FALSE)
      ELSE Synced([exists |-> TRUE,
                   text |-> rstrip_nl(rem.text) \o << NL, last_line, NL >>],
                  1, 1, FALSE)

----------------------------------------------------------------------------
(* State.                                                                  *)
(*   env            the process environment (fixed for a deployment)       *)
(*   clock          what datetime.now() returns                            *)
(*   localFile      ./output_cmc_llama.csv                                 *)
(*   remote         gs://ton_info_hourly/output_cmc_llama.csv              *)
(*   pc             where the interpreter stands in script.py              *)
(*   exit_status    -1 while running, then the process's exit status       *)
(*   now .. volume_ts   the locals of main()                               *)
(*   future_*       the two tasks of the pool                              *)
(*   io             what the current run (or call) has done so far         *)
(*   fileAtStart    the local file as the current run (or call) found it   *)
(***************************************************************************)

Idle == [state |-> "idle", resp |-> NoResp, result |-> Result(NoneVal, 0, FALSE)]

Running == [state |-> "running", resp |-> NoResp, result |-> Result(NoneVal, 0, FALSE)]

Done(resp, result) == [state |-> "done", resp |-> resp, result |-> result]

NoIo ==
  [requests |-> 0, appends |-> 0, reads |-> 0, writes |-> 0,
   read_failed |-> FALSE, op |-> "none"]

DataRows(file) == LET n == Len(FileLines(file)) IN IF n = 0 THEN 0 ELSE n - 1

InitCommon ==
  /\ env \in Envs
  /\ clock = 0
  /\ localFile = NoFile
  /\ remote \in {NoRemote, [exists |-> TRUE, text |-> << >>]}
  /\ exit_status = -1
  /\ now = 0 /\ timestamp_hour = 0
  /\ future_price = Idle /\ future_volume = Idle
  /\ ton_price = NoneVal /\ ton_price_ts = 0
  /\ volume_float = NoneVal /\ volume_ts = 0
  /\ io = NoIo
  /\ fileAtStart = NoFile

Init == InitCommon /\ pc = "main"

locals == <<now, timestamp_hour, ton_price, ton_price_ts, volume_float, volume_ts>>

futures == <<future_price, future_volume>>

\* Time passes.  The clock is read by TakeNow and when a fetch completes; time
\* that passes anywhere else is seen only at the next of these reads.
Tick ==
  /\ clock < MaxClock
  /\ pc \in {"now", "join"}
  /\ clock' = clock + 1
  /\ UNCHANGED <<env, localFile, remote, pc, exit_status, locals, futures, io, fileAtStart>>

\* main(), lines 130-133: the credential check; SystemExit(message) ends the
\* process with status 1 and nothing after it in the module runs.
MainGuard ==
  /\ pc = "main"
  /\ IF KeyRejected(env)
       THEN pc' = "exit" /\ exit_status' = 1
       ELSE pc' = "ensure" /\ UNCHANGED exit_status
  /\ UNCHANGED <<env, clock, localFile, remote, locals, futures, io, fileAtStart>>

\* main(), lines 135-136.
EnsureCsv ==
  /\ pc = "ensure"
  /\ localFile' = ensure_csv_exists(localFile)
  /\ pc' = "now"
  /\ UNCHANGED <<env, clock, remote, exit_status, locals, futures, io, fileAtStart>>

\* main(), lines 138-139.
TakeNow ==
  /\ pc = "now"
  /\ now' = clock
  /\ timestamp_hour' = truncate_to_hour(clock)
  /\ pc' = "submit"
  /\ UNCHANGED <<env, clock, localFile, remote, exit_status, ton_price, ton_price_ts,
                 volume_float, volume_ts, futures, io, fileAtStart>>

\* main(), lines 142-144: both tasks go to the pool of two workers.
Submit ==
  /\ pc = "submit"
  /\ future_price' = Running
  /\ future_volume' = Running
  /\ pc' = "join"
  /\ UNCHANGED <<env, clock, localFile, remote, exit_status, locals, io, fileAtStart>>

\* A pool thread runs fetch_ton_price(started_at=now): one request, one answer.
RunFetchPrice ==
  /\ future_price.state = "running"
  /\ \E resp \in PriceResponses :
       future_price' = Done(resp, fetch_ton_price(resp, now, clock))
  /\ io' = [io EXCEPT !.requests = @ + 1]
  /\ UNCHANGED <<env, clock, localFile, remote, pc, exit_status, locals,
                 future_volume, fileAtStart>>

\* A pool thread runs fetch_dex_volume_llama(started_at=now).
RunFetchVolume ==
  /\ future_volume.state = "running"
  /\ \E resp \in VolumeResponses :
       future_volume' = Done(resp, fetch_dex_volume_llama(resp, now, clock))
  /\ io' = [io EXCEPT !.requests = @ + 1]
  /\ UNCHANGED <<env, clock, localFile, remote, pc, exit_status, locals,
                 future_price, fileAtStart>>

\* Mutant of JoinReady: main() goes on once the price is there.
JoinReady_PriceOnly(fp, fv) == fp.state = "done"

\* future_price.result() and future_volume.result() both return.
JoinReady(fp, fv) == fp.state = "done" /\ fv.state = "done"

\* main(), lines 146-147: result() returns the task's pair or raises what the
\* task raised, which ends the process with a traceback (status 1).
Join ==
  /\ pc = "join"
  /\ JoinReady(future_price, future_volume)
  /\ IF future_price.result.raised \/ future_volume.result.raised
       THEN /\ pc' = "exit" /\ exit_status' = 1
            /\ UNCHANGED <<ton_price, ton_price_ts, volume_float, volume_ts, futures>>
       ELSE /\ ton_price' = future_price.result.value
            /\ ton_price_ts' = future_price.result.ts
            /\ volume_float' = future_volume.result.value
            /\ volume_ts' = future_volume.result.ts
            /\ pc' = "append"
            /\ future_price' = [future_price EXCEPT !.resp = NoResp]
            /\ future_volume' = [future_volume EXCEPT !.resp = NoResp]
            /\ UNCHANGED exit_status
  /\ UNCHANGED <<env, clock, localFile, remote, now, timestamp_hour, io, fileAtStart>>

\* main(), lines 150-161.
AppendStep ==
  /\ pc = "append"
  /\ localFile' = AppendRow(localFile,
                     Row(timestamp_hour, now, ton_price, ton_price_ts,
                         volume_float, volume_ts))
  /\ io' = [io EXCEPT !.appends = @ + 1]
  /\ pc' = "mirror_gate"
  /\ UNCHANGED <<env, clock, remote, exit_status, locals, futures, fileAtStart>>

\* Line 237: main() has returned; the module goes on to the Cloud Run check.
MirrorGate ==
  /\ pc = "mirror_gate"
  /\ IF is_running_in_cloud_run(env)
       THEN pc' = "upload" /\ UNCHANGED exit_status
       ELSE pc' = "exit" /\ exit_status' = 0
  /\ UNCHANGED <<env, clock, localFile, remote, locals, futures, io, fileAtStart>>

\* Lines 238-241: upload_last_row_to_gcs(csv_path, bucket_name), then the end.
Upload ==
  /\ pc = "upload"
  /\ \E read_fails \in BOOLEAN :
       LET r == upload_last_row_to_gcs(localFile, remote, env.gcs_installed, read_fails)
       IN /\ remote' = r.remote
          /\ io' = [io EXCEPT !.reads = @ + r.reads, !.writes = @ + r.writes,
                              !.read_failed = r.read_failed, !.op = "upload"]
  /\ pc' = "exit"
  /\ exit_status' = 0
  /\ UNCHANGED <<env, clock, localFile, locals, futures, fileAtStart>>

\* The next scheduled run of the script: a new process, the same files.
NextRun ==
  /\ pc = "exit"
  /\ DataRows(localFile) < MaxRows
  /\ pc' = "main"
  /\ exit_status' = -1
  /\ now' = 0 /\ timestamp_hour' = 0
  /\ ton_price' = NoneVal /\ ton_price_ts' = 0
  /\ volume_float' = NoneVal /\ volume_ts' = 0
  /\ future_price' = Idle /\ future_volume' = Idle
  /\ io' = NoIo
  /\ fileAtStart' = localFile
  /\ UNCHANGED <<env, clock, localFile, remote>>

Next ==
  \/ Tick
  \/ MainGuard
  \/ EnsureCsv
  \/ TakeNow
  \/ Submit
  \/ RunFetchPrice
  \/ RunFetchVolume
  \/ Join
  \/ AppendStep
  \/ MirrorGate
  \/ Upload
  \/ NextRun

Spec == Init /\ [][Next]_vars

----------------------------------------------------------------------------
(* The functions called one by one, in any order, by a process that has    *)
(* imported the module: each call runs from its first line to its return.  *)

InitApi == InitCommon /\ pc = "api"

Later(t) == {u \in 0..MaxClock : u >= t}

Max(a, b) == IF a >= b THEN a ELSE b

\* What a fetch returned and when it returned.
Timed(result, ended) == [result |-> result, ended |-> ended]

\* ensure_csv_exists(csv_path)
CallEnsure ==
  /\ pc = "api"
  /\ localFile' = ensure_csv_exists(localFile)
  /\ io' = [NoIo EXCEPT !.op = "ensure"]
  /\ fileAtStart' = localFile
  /\ UNCHANGED <<env, clock, remote, pc, exit_status, locals, futures>>

\* main(): started at n; each fetch gets some answer and ends at some time from n on.
CallMain ==
  /\ pc = "api"
  /\ DataRows(localFile) < MaxRows
  /\ fileAtStart' = localFile
  /\ IF KeyRejected(env)
       THEN /\ io' = [NoIo EXCEPT !.op = "main_exit"]
            /\ UNCHANGED <<clock, localFile>>
       ELSE \E n \in Later(clock) :
            \E p \in {Timed(fetch_ton_price(presp, n, c), c) :
                        presp \in PriceResponses, c \in Later(n)} :
            \E v \in {Timed(fetch_dex_volume_llama(vresp, n, c), c) :
                        vresp \in VolumeResponses, c \in Later(n)} :
                 /\ ~p.result.raised /\ ~v.result.raised
                 /\ localFile' = AppendRow(ensure_csv_exists(localFile),
                                    Row(truncate_to_hour(n), n,
                                        p.result.value, p.result.ts,
                                        v.result.value, v.result.ts))
                 /\ clock' = Max(p.ended, v.ended)
                 /\ io' = [NoIo EXCEPT !.op = "main", !.requests = 2, !.appends = 1]
  /\ UNCHANGED <<env, remote, pc, exit_status, locals, futures>>

\* upload_last_row_to_gcs(csv_path, bucket_name)
CallUpload ==
  /\ pc = "api"
  /\ \E read_fails \in BOOLEAN :
       LET r == upload_last_row_to_gcs(localFile, remote, env.gcs_installed, read_fails)
       IN /\ remote' = r.remote
          /\ io' = [NoIo EXCEPT !.reads = r.reads, !.writes = r.writes,
                                !.read_failed = r.read_failed, !.op = "upload"]
  /\ fileAtStart' = localFile
  /\ UNCHANGED <<env, clock, localFile, pc, exit_status, locals, futures>>

NextApi ==
  \/ CallEnsure
  \/ CallMain
  \/ CallUpload

SpecApi == InitApi /\ [][NextApi]_vars

----------------------------------------------------------------------------
(* What the claims speak of, said without the model's operators.           *)

HeaderLine ==
  "hour,timestamp,ton_price,ton_price_received_at,volume_usd_float,volume_usd_received_at"

\* The credential is missing, empty or the built-in default.
CredentialMissingOrDefault == env.CMC_API_KEY \in {Unset, "", DefaultKey}

\* One of the two managed-execution variables is set.
SignalPresent == env.CLOUD_RUN_JOB # Unset \/ env.K_SERVICE # Unset

\* A failed fetch: no answer, a status outside 2xx, a body that is not JSON or
\* lacks a numeric field, or (for the quote API) an error code other than zero.
BadBody(resp) == ~resp.json \/ resp.field \in {Missing, "null"}

PriceFailed(resp) ==
  \/ ~resp.net
  \/ resp.status \notin 200..299
  \/ BadBody(resp)
  \/ resp.error_code \notin {"0", "\"0\""}

VolumeFailed(resp) == ~resp.net \/ resp.status \notin 200..299 \/ BadBody(resp)

IsPrefix(s, t) == Len(s) <= Len(t) /\ \A i \in 1..Len(s) : s[i] = t[i]

Last(s) == s[Len(s)]

\* The line of the row main() assembles from its locals.
RowLine ==
  JoinFields(<< isoformat(timestamp_hour), isoformat(now),
                IF ton_price = NoneVal THEN "" ELSE ton_price, isoformat(ton_price_ts),
                IF volume_float = NoneVal THEN "" ELSE volume_float,
                isoformat(volume_ts) >>)

----------------------------------------------------------------------------
\* C1: with the credential missing, empty or the default, the run makes no
\* request, appends no row, creates no file, does no remote read or write, and
\* ends with a non-zero exit status.
C1_AbortBeforeAnyWork ==
  CredentialMissingOrDefault =>
    /\ pc \in {"main", "exit"}
    /\ io.requests = 0 /\ io.appends = 0 /\ io.reads = 0 /\ io.writes = 0
    /\ future_price.state = "idle" /\ future_volume.state = "idle"
    /\ localFile = NoFile
    /\ remote.text = << >>
    /\ (pc = "exit" => exit_status = 1)

C1_Witness ==
  /\ pc = "exit" /\ exit_status = 1
  /\ env.CMC_API_KEY = DefaultKey
  /\ SignalPresent /\ env.gcs_installed

C4_OneRowAppended ==
  LET before == FileLines(fileAtStart)
      base == IF fileAtStart.exists THEN before ELSE << HeaderLine >>
  IN /\ IsPrefix(before, FileLines(localFile))
     /\ (io.appends = 1)
          => /\ FileLines(localFile) = base \o << RowLine >>
             /\ DataRows(localFile) = DataRows(fileAtStart) + 1
             /\ Len(Row(timestamp_hour, now, ton_price, ton_price_ts,
                        volume_float, volume_ts)) = 6
     /\ (pc = "exit" /\ exit_status = 0) => io.appends = 1

C4_Witness ==
  /\ pc = "exit" /\ exit_status = 0
  /\ DataRows(fileAtStart) = 1 /\ DataRows(localFile) = 2
  /\ ton_price # NoneVal /\ volume_float = NoneVal

\* C7: the row is appended only once both fetches have completed, it is written
\* once, with the six fields taken from the two results, and each result is what
\* that fetcher's own response gives, whichever of the two finished first.
C7_AppendAfterJoin ==
  /\ (pc = "append" \/ io.appends > 0)
       => future_price.state = "done" /\ future_volume.state = "done"
  /\ io.appends <= 1
  /\ (io.appends = 1)
       => /\ Last(FileLines(localFile)) = RowLine
          /\ ton_price = future_price.result.value
          /\ ton_price_ts = future_price.result.ts
          /\ volume_float = future_volume.result.value
          /\ volume_ts = future_volume.result.ts
  /\ (pc = "join" /\ future_price.state = "done")
       => (future_price.result.value = NoneVal <=> PriceFailed(future_price.resp))
  /\ (pc = "join" /\ future_volume.state = "done")
       => (future_volume.result.value = NoneVal <=> VolumeFailed(future_volume.resp))

\* The volume fetch, submitted second, finished first; both succeeded.
C7_Witness ==
  /\ pc = "mirror_gate" /\ io.appends = 1
  /\ ton_price # NoneVal /\ volume_float # NoneVal
  /\ volume_ts < ton_price_ts

\* C8: a remote read or write happens only in a run that has appended its row,
\* and only with one of the two managed-execution variables set.
C8_MirrorAfterAppend ==
  (pc = "upload" \/ io.op = "upload" \/ io.reads > 0 \/ io.writes > 0)
    => io.appends = 1 /\ SignalPresent

C8_Witness ==
  /\ io.op = "upload" /\ io.reads = 1 /\ io.writes = 1 /\ io.appends = 1
  /\ DataRows(localFile) = 2

----------------------------------------------------------------------------
(* The claims about the functions called one by one (SpecApi).             *)

NoDuplicates(s) == \A i, j \in 1..Len(s) : i # j => s[i] # s[j]

\* The last non-blank line of the local file is among the object's lines.
LastLocalLineInRemote ==
  /\ localFile.exists /\ Len(FileLines(localFile)) >= 2
  /\ remote.exists
  /\ InSeq(Last(FileLines(localFile)), splitlines(remote.text))

\* The object is absent or empty and the local file is the header and one row.
FreshRemoteOneRow ==
  /\ ~remote.exists \/ remote.text = << >>
  /\ DataRows(localFile) = 1

\* C3: the local file, once it exists, is the header line followed by data
\* rows none of which is the header; ensure_csv_exists on an existing file
\* leaves it as it is, and on a missing one writes the header alone.
C3_SingleHeader ==
  /\ [](localFile.exists =>
          LET lines == FileLines(localFile) IN
          /\ Len(lines) >= 1
          /\ lines[1] = HeaderLine
          /\ \A i \in 2..Len(lines) : lines[i] # HeaderLine
          /\ Len(localFile.text) = 2 * Len(lines))
  /\ [][CallEnsure =>
          /\ localFile.exists => localFile' = localFile
          /\ ~localFile.exists => FileLines(localFile') = << HeaderLine >>]_vars

\* ensure_csv_exists has been called on a file that holds two rows.
C3_Witness ==
  /\ io.op = "ensure" /\ fileAtStart.exists
  /\ DataRows(localFile) = 2

\* C5 as stated: a sync that finds the last local line among the object's lines
\* writes nothing and leaves the object as it is.
C5_NoWriteWhenPresent ==
  [][(CallUpload /\ LastLocalLineInRemote) => (io'.writes = 0 /\ remote' = remote)]_vars

\* C6 as stated: with the object absent or empty and a local file of header and
\* one row the sync leaves exactly header and row; with fewer than two local
\* lines it does no remote read and no remote write.
C6_Original ==
  [][CallUpload =>
       /\ FreshRemoteOneRow
            => remote' = [exists |-> TRUE,
                          text |-> << HeaderLine, NL, FileLines(localFile)[2], NL >>]
       /\ Len(FileLines(localFile)) < 2
            => io'.reads = 0 /\ io'.writes = 0 /\ remote' = remote]_vars

\* C6 amended: the same, the first half for a process in which
\* google-cloud-storage can be imported.
C6_CreateOrNoop ==
  [][CallUpload =>
       /\ (env.gcs_installed /\ FreshRemoteOneRow)
            => remote' = [exists |-> TRUE,
                          text |-> << HeaderLine, NL, FileLines(localFile)[2], NL >>]
       /\ Len(FileLines(localFile)) < 2
            => io'.reads = 0 /\ io'.writes = 0 /\ remote' = remote]_vars

\* The sync has written header and row over an empty object that it could read.
C6_Witness ==
  /\ io.op = "upload" /\ io.writes = 1 /\ ~io.read_failed
  /\ DataRows(localFile) = 1
  /\ remote.text = << HeaderLine, NL, FileLines(localFile)[2], NL >>

\* C10: the object, when it holds anything, is the header line followed by
\* data rows of the local file, each at most once, every line terminated.
C10_RemoteWellFormed ==
  (remote.exists /\ remote.text # << >>) =>
    LET lines == splitlines(remote.text)
        rows == FileLines(localFile)
    IN
    /\ Len(lines) >= 2
    /\ Len(remote.text) = 2 * Len(lines)
    /\ lines[1] = HeaderLine
    /\ \A i \in 2..Len(lines) :
         /\ lines[i] # HeaderLine
         /\ \E j \in 2..Len(rows) : rows[j] = lines[i]
    /\ NoDuplicates(lines)

\* Two distinct rows are in the object, and the last sync found its row there.
C10_Witness ==
  /\ Len(splitlines(remote.text)) = 3
  /\ io.op = "upload" /\ io.reads = 1 /\ io.writes = 0
  /\ NoDuplicates(FileLines(localFile))

====
